---- MODULE Spec2Model ----
(***************************************************************************)
(* Model of the interactive contact manager in src/main.py: the validated  *)
(* fields (Phone, Birthday), Record, AddressBook, the input_error wrapper  *)
(* and the command loop Assistant.run.                                     *)
(*                                                                         *)
(* Strings that the program inspects character by character (the command   *)
(* token, the phone and the birthday) are sequences of one-character       *)
(* strings.  Names are never inspected, only compared and formatted, and   *)
(* are plain strings.  The Ukrainian texts of the program are written in   *)
(* Latin transliteration because the module is ASCII; distinct texts stay  *)
(* distinct.                                                               *)
(***************************************************************************)
EXTENDS Integers, Sequences, FiniteSets, TLC

VARIABLES
    address_book,   \* Assistant.address_book: the dict, in insertion order
    prev_book,      \* address_book as it was when the last command was read
    pc,             \* position of Assistant.run: "prompt", "stopped", "crashed"
    command,        \* the command token read by run
    handler,        \* result of get_command_handler: a command name or "None"
    name,           \* the name entered at the handler's prompt
    phone,          \* the phone entered at the handler's prompt
    birthday,       \* the birthday entered at the handler's prompt
    today,          \* what date.today() returned to the handler (NoDate: not called)
    raised,         \* the exception the handler's body raised, or "None"
    printed         \* the text run printed: response, or the invalid-command text

vars == <<address_book, prev_book, pc, command, handler, name, phone,
          birthday, today, raised, printed>>

----------------------------------------------------------------------------
(* Bounds: how many of the listed inputs the user draws from.              *)

PhoneCount == 3
BirthdayCount == 4
TodayCount == 2

----------------------------------------------------------------------------
(* Characters and strings.                                                 *)

Digits == <<"0", "1", "2", "3", "4", "5", "6", "7", "8", "9">>

IsDigit(c) == \E i \in 1..10 : Digits[i] = c

DigitVal(c) == (CHOOSE i \in 1..10 : Digits[i] = c) - 1

\* \s of the re module, restricted to the characters input() can return
IsSpace(c) == c \in {" ", "\t", "\r", "\f"}

RECURSIVE Str(_)
\* the Python str whose characters are the elements of s
Str(s) == IF s = <<>> THEN "" ELSE Head(s) \o Str(Tail(s))

RECURSIVE Join(_, _)
\* sep.join(parts)
Join(sep, parts) ==
    IF parts = <<>> THEN ""
    ELSE IF Len(parts) = 1 THEN parts[1]
    ELSE parts[1] \o sep \o Join(sep, Tail(parts))

Uppers == <<"A", "B", "C", "D", "E", "F", "G", "H", "I", "J", "K", "L", "M",
            "N", "O", "P", "Q", "R", "S", "T", "U", "V", "W", "X", "Y", "Z">>
Lowers == <<"a", "b", "c", "d", "e", "f", "g", "h", "i", "j", "k", "l", "m",
            "n", "o", "p", "q", "r", "s", "t", "u", "v", "w", "x", "y", "z">>

LowerChar(c) ==
    IF \E i \in 1..26 : Uppers[i] = c
    THEN Lowers[CHOOSE i \in 1..26 : Uppers[i] = c]
    ELSE c

\* str.lower()
Lower(s) == [i \in 1..Len(s) |-> LowerChar(s[i])]

\* str.strip()
Strip(s) ==
    LET nonspace == {i \in 1..Len(s) : ~IsSpace(s[i])}
    IN  IF nonspace = {} THEN <<>>
        ELSE LET lo == CHOOSE i \in nonspace : \A j \in nonspace : i <= j
                 hi == CHOOSE i \in nonspace : \A j \in nonspace : j <= i
             IN  SubSeq(s, lo, hi)

----------------------------------------------------------------------------
(* The texts the program returns and prints.                               *)

InputErrorMsg == "Pomylka vvedennya. Sprobuyte shche raz."
NotFoundMsg == "Kontaktu z takym im'yam ne znaydeno."
ExitMsg == "Do pobachennya!"
InvalidCommandMsg == "Nepravylna komanda"

----------------------------------------------------------------------------
(* Field validation.                                                       *)

PhoneBodyChar(c) == IsDigit(c) \/ c = "-" \/ IsSpace(c)

\* Phone.PHONE_REGEX.match(s): ^\+?(\d{2})?\(?\d{3}\)?[\d\-\s]{7,10}$
PHONE_REGEX(s) ==
    \E plus \in {0, 1}, cc \in {0, 2}, open \in {0, 1}, close \in {0, 1},
       body \in 7..10 :
        /\ Len(s) = plus + cc + open + 3 + close + body
        /\ plus = 1 => s[1] = "+"
        /\ \A i \in (plus + 1)..(plus + cc) : IsDigit(s[i])
        /\ open = 1 => s[plus + cc + 1] = "("
        /\ \A i \in (plus + cc + open + 1)..(plus + cc + open + 3) :
               IsDigit(s[i])
        /\ close = 1 => s[plus + cc + open + 4] = ")"
        /\ \A i \in (plus + cc + open + 3 + close + 1)..Len(s) :
               PhoneBodyChar(s[i])

\* Birthday.DATE_REGEX.match(s): ^\d{4}-\d{2}-\d{2}$
DATE_REGEX(s) ==
    /\ Len(s) = 10
    /\ \A i \in {1, 2, 3, 4, 6, 7, 9, 10} : IsDigit(s[i])
    /\ s[5] = "-"
    /\ s[8] = "-"

----------------------------------------------------------------------------
(* Calendar dates of the datetime module, as records [year, month, day].   *)

MINYEAR == 1
MAXYEAR == 9999

IsLeap(y) == (y % 4 = 0) /\ ((y % 100 # 0) \/ (y % 400 = 0))

DaysInMonth(y, m) ==
    IF m = 2 THEN (IF IsLeap(y) THEN 29 ELSE 28)
    ELSE IF m \in {4, 6, 9, 11} THEN 30
    ELSE 31

RECURSIVE DaysBeforeMonth(_, _)
DaysBeforeMonth(y, m) ==
    IF m <= 1 THEN 0 ELSE DaysBeforeMonth(y, m - 1) + DaysInMonth(y, m - 1)

\* date.toordinal(): 1 for 0001-01-01
toordinal(dt) ==
    LET y == dt.year - 1
    IN  y * 365 + (y \div 4) - (y \div 100) + (y \div 400)
        + DaysBeforeMonth(dt.year, dt.month) + dt.day

\* date(y, m, d): the date, or ValueError when it is not a calendar date
date(y, m, d) ==
    IF /\ MINYEAR <= y /\ y <= MAXYEAR
       /\ 1 <= m /\ m <= 12
       /\ 1 <= d /\ d <= DaysInMonth(y, m)
    THEN [exc |-> "None", val |-> [year |-> y, month |-> m, day |-> d]]
    ELSE [exc |-> "ValueError"]

\* a < b on dates
DateLess(a, b) == toordinal(a) < toordinal(b)

\* datetime.strptime(s, "%Y-%m-%d").date() for s accepted by DATE_REGEX
strptime(s) ==
    LET y == DigitVal(s[1]) * 1000 + DigitVal(s[2]) * 100
             + DigitVal(s[3]) * 10 + DigitVal(s[4])
        m == DigitVal(s[6]) * 10 + DigitVal(s[7])
        d == DigitVal(s[9]) * 10 + DigitVal(s[10])
    IN  date(y, m, d)

----------------------------------------------------------------------------
(* Fields.  A Phone object is [oid, value]: Field defines no __eq__, so two *)
(* Phone objects are equal exactly when they are the same object, which    *)
(* the object identity oid records.  A Birthday object is represented by   *)
(* its _value; a Name by its value.                                        *)

\* the identities of the Phone objects the book holds
LiveOids(book) ==
    UNION {{book[i].record.phones[j].oid :
               j \in 1..Len(book[i].record.phones)} : i \in 1..Len(book)}

\* the identity of a newly allocated object: one no live object has
NewOid(book) ==
    CHOOSE n \in 1..(Cardinality(LiveOids(book)) + 1) :
        /\ n \notin LiveOids(book)
        /\ \A k \in 1..(n - 1) : k \in LiveOids(book)

RECURSIVE PhonesBefore(_, _)
\* how many Phone objects the records before the i-th hold
PhonesBefore(book, i) ==
    IF i <= 1 THEN 0
    ELSE PhonesBefore(book, i - 1) + Len(book[i - 1].record.phones)

\* The same heap with its Phone objects numbered in the order of the book.
\* Identities are only ever compared with each other, so the numbering is
\* not observable; the book is kept in this form between commands.
Renumber(book) ==
    [i \in 1..Len(book) |->
        [book[i] EXCEPT !.record.phones =
            [j \in 1..Len(@) |-> [@[j] EXCEPT !.oid = PhonesBefore(book, i) + j]]]]

\* Phone(value): Field.__init__ -> value setter -> Phone.validate
Phone(value, oid) ==
    IF PHONE_REGEX(value)
    THEN [exc |-> "None", obj |-> [oid |-> oid, value |-> value]]
    ELSE [exc |-> "ValueError"]

\* Birthday as it would be if its value setter did not call validate
Birthday_unvalidated(value) == [exc |-> "None", obj |-> value]

\* Birthday(value): Field.__init__ -> Birthday.value setter -> validate
Birthday(value) ==
    IF DATE_REGEX(value)
    THEN [exc |-> "None", obj |-> value]
    ELSE [exc |-> "ValueError"]

\* the None a Birthday without _value has for value
NoDate == [year |-> 0, month |-> 0, day |-> 0]

\* Birthday.value getter
Birthday_value(b) ==
    IF b # <<>> THEN strptime(b) ELSE [exc |-> "None", val |-> NoDate]

\* a == b on Phone objects: object.__eq__, identity
Phone_eq(a, b) == a.oid = b.oid

----------------------------------------------------------------------------
(* Record.                                                                 *)

\* Record(name, birthday)
Record(n, b) == [name |-> n, phones |-> <<>>, birthday |-> b]

\* Record.add
Record_add(rec, ph) == [rec EXCEPT !.phones = Append(@, ph)]

\* Record.remove: list.remove deletes the first equal element or raises
Record_remove(rec, ph) ==
    LET hits == {i \in 1..Len(rec.phones) : Phone_eq(rec.phones[i], ph)}
    IN  IF hits = {} THEN [exc |-> "ValueError", rec |-> rec]
        ELSE LET i == CHOOSE k \in hits : \A j \in hits : k <= j
             IN  [exc |-> "None",
                  rec |-> [rec EXCEPT !.phones =
                             SubSeq(@, 1, i - 1) \o SubSeq(@, i + 1, Len(@))]]

\* clear_phones as it would be if it emptied a copy of the list
clear_phones_of_copy(rec) == rec

\* Record.clear_phones
clear_phones(rec) == [rec EXCEPT !.phones = <<>>]

\* the None days_to_birthday returns for a record without birthday
NoDays == -1

\* Record.days_to_birthday with date.today() = t
days_to_birthday(rec, t) ==
    LET bv == Birthday_value(rec.birthday)
    IN  IF bv.exc # "None" THEN [exc |-> bv.exc]
        ELSE IF bv.val = NoDate THEN [exc |-> "None", val |-> NoDays]
        ELSE LET this == date(t.year, bv.val.month, bv.val.day)
             IN  IF this.exc # "None" THEN [exc |-> this.exc]
                 ELSE IF DateLess(this.val, t)
                 THEN LET nxt == date(t.year + 1, bv.val.month, bv.val.day)
                      IN  IF nxt.exc # "None" THEN [exc |-> nxt.exc]
                          ELSE [exc |-> "None",
                                val |-> toordinal(nxt.val) - toordinal(t)]
                 ELSE [exc |-> "None",
                       val |-> toordinal(this.val) - toordinal(t)]

----------------------------------------------------------------------------
(* AddressBook: a dict, modelled as the sequence of its items in insertion *)
(* order, each [key, record].                                              *)

Keys(book) == {book[i].key : i \in 1..Len(book)}

\* position of the item with key k
IndexOf(book, k) == CHOOSE i \in 1..Len(book) : book[i].key = k

\* AddressBook.__getitem__ for a key that is present
Lookup(book, k) == book[IndexOf(book, k)].record

\* add_record as it would be on a list of records: always appends
add_record_append(book, rec) ==
    Append(book, [key |-> rec.name, record |-> rec])

\* add_record as it would be with the Name object, not its value, as the key
add_record_by_object(book, rec) ==
    LET k == "<Name " \o rec.name \o ">"
    IN  IF k \in Keys(book)
        THEN [book EXCEPT ![IndexOf(book, k)].record = rec]
        ELSE Append(book, [key |-> k, record |-> rec])

\* add_record as it would be if it deleted the old item and inserted anew
add_record_moves_last(book, rec) ==
    Append(SelectSeq(book, LAMBDA e : e.key # rec.name),
           [key |-> rec.name, record |-> rec])

\* AddressBook.add_record: data[record.name.value] = record
add_record(book, rec) ==
    IF rec.name \in Keys(book)
    THEN [book EXCEPT ![IndexOf(book, rec.name)].record = rec]
    ELSE Append(book, [key |-> rec.name, record |-> rec])

\* AddressBook.remove_record: data.pop(name, None)
remove_record(book, k) ==
    IF k \in Keys(book)
    THEN LET i == IndexOf(book, k)
         IN  SubSeq(book, 1, i - 1) \o SubSeq(book, i + 1, Len(book))
    ELSE book

\* AddressBook.get_all_records
get_all_records(book) == [i \in 1..Len(book) |-> book[i].record]

----------------------------------------------------------------------------
(* The inputs the user types.                                              *)

\* two names that differ in case only; the first is also the text of exit
Names == {"Do pobachennya!", "do pobachennya!"}

AllPhones ==
    << <<"+", "3", "8", "0", "5", "0", "1", "2", "3", "4", "5", "6", "7">>,
       <<"a", "b", "c">>,
       <<"(", "0", "5", "0", ")", "1", "2", "3", "-", "4", "5", "-", "6", "7">>,
       <<"0", "5", "0", "1", "2", "3", "4", "5", "6">>,
       <<"0", "5", "0", "1", "2", "3", "4", "5", "6", "7">> >>

AllBirthdays ==
    << <<"1", "9", "9", "0", "-", "0", "5", "-", "2", "0">>,
       <<"2", "0", "2", "1", "-", "0", "2", "-", "3", "0">>,
       <<"1", "9", "9", "0", "-", "5", "-", "2", "0">>,
       <<"2", "0", "2", "0", "-", "0", "2", "-", "2", "9">>,
       <<>>,
       <<"0", "0", "0", "0", "-", "0", "1", "-", "0", "1">> >>

AllTodays ==
    << [year |-> 2023, month |-> 5, day |-> 21],
       [year |-> 2024, month |-> 2, day |-> 29],
       [year |-> 9999, month |-> 12, day |-> 31] >>

Phones == {AllPhones[i] : i \in 1..PhoneCount}
Birthdays == {AllBirthdays[i] : i \in 1..BirthdayCount}
Todays == {AllTodays[i] : i \in 1..TodayCount}

Tokens ==
    { <<"h", "e", "l", "l", "o">>,
      <<"a", "d", "d">>,
      <<"c", "h", "a", "n", "g", "e">>,
      <<"r", "e", "m", "o", "v", "e", "_", "p", "h", "o", "n", "e">>,
      <<"r", "e", "m", "o", "v", "e", "_", "r", "e", "c", "o", "r", "d">>,
      <<"p", "h", "o", "n", "e">>,
      <<"s", "h", "o", "w", "_", "a", "l", "l">>,
      <<"e", "x", "i", "t">>,
      <<" ", "H", "e", "l", "l", "o", " ">>,
      <<"q", "u", "i", "t">>,
      <<"a", "d", "d", " ", "x">> }

----------------------------------------------------------------------------
(* The handlers of Assistant.  Each takes the book and the strings the     *)
(* user enters at its prompts and yields [exc, ret, book]: the exception   *)
(* its body raises ("None" when it returns), the value it returns and the  *)
(* book it leaves.                                                         *)

Returns(text, book) == [exc |-> "None", ret |-> text, book |-> book]

Raises(e, book) == [exc |-> e, ret |-> "", book |-> book]

\* Assistant.hello (the text of list_commands is abbreviated)
hello(book) ==
    Returns("Pryvit! Ya mozhu dopomohty Vam z nastupnymy komandamy: \n"
            \o "hello: Spysok dostupnykh komand ...", book)

\* add as it would be if it added the phone to the record already stored
\* under the name
add_keeps_phones(book, n, p, b) ==
    LET bd == Birthday(b)
        ph == Phone(p, NewOid(book))
        base == IF n \in Keys(book)
                THEN [Lookup(book, n) EXCEPT !.birthday = b]
                ELSE Record(n, b)
    IN  IF bd.exc # "None" THEN Raises(bd.exc, book)
        ELSE IF ph.exc # "None" THEN Raises(ph.exc, book)
        ELSE Returns("Zapys z im'yam " \o n \o " ta nomerom telefonu "
                     \o Str(p) \o " dodano.",
                     add_record(book, Record_add(base, ph.obj)))

\* add as it would be if it stored the record before it built the Phone
add_validates_late(book, n, p, b) ==
    LET bd == Birthday(b)
        ph == Phone(p, NewOid(book))
    IN  IF bd.exc # "None" THEN Raises(bd.exc, book)
        ELSE IF ph.exc # "None"
        THEN Raises(ph.exc, add_record(book, Record(n, bd.obj)))
        ELSE Returns("Zapys z im'yam " \o n \o " ta nomerom telefonu "
                     \o Str(p) \o " dodano.",
                     add_record(book, Record_add(Record(n, bd.obj), ph.obj)))

\* Assistant.add
add(book, n, p, b) ==
    LET bd == Birthday(b)
        ph == Phone(p, NewOid(book))
    IN  IF bd.exc # "None" THEN Raises(bd.exc, book)
        ELSE IF ph.exc # "None" THEN Raises(ph.exc, book)
        ELSE Returns("Zapys z im'yam " \o n \o " ta nomerom telefonu "
                     \o Str(p) \o " dodano.",
                     add_record(book, Record_add(Record(n, bd.obj), ph.obj)))

\* change as it would be if it built the Phone before it looked the name up
change_validates_first(book, n, p) ==
    LET ph == Phone(p, NewOid(book))
    IN  IF ph.exc # "None" THEN Raises(ph.exc, book)
        ELSE IF n \notin Keys(book) THEN Raises("KeyError", book)
        ELSE LET i == IndexOf(book, n)
             IN  Returns("Dlya kontaktu " \o n \o " nomer telefonu onovleno.",
                         [book EXCEPT ![i].record.phones = <<ph.obj>>])

\* change without the clear_phones() of line 127
change_appends(book, n, p) ==
    IF n \notin Keys(book) THEN Raises("KeyError", book)
    ELSE LET i == IndexOf(book, n)
             ph == Phone(p, NewOid(book))
         IN  IF ph.exc # "None" THEN Raises(ph.exc, book)
             ELSE Returns("Dlya kontaktu " \o n
                          \o " nomer telefonu onovleno.",
                          [book EXCEPT ![i].record = Record_add(@, ph.obj)])

\* Assistant.change
change(book, n, p) ==
    IF n \notin Keys(book) THEN Raises("KeyError", book)
    ELSE LET i == IndexOf(book, n)
             cleared == [book EXCEPT ![i].record = clear_phones(@)]
             ph == Phone(p, NewOid(cleared))
         IN  IF ph.exc # "None" THEN Raises(ph.exc, cleared)
             ELSE Returns("Dlya kontaktu " \o n
                          \o " nomer telefonu onovleno.",
                          [cleared EXCEPT ![i].record = Record_add(@, ph.obj)])

\* Assistant.remove_phone
remove_phone(book, n, p) ==
    IF n \notin Keys(book) THEN Raises("KeyError", book)
    ELSE LET i == IndexOf(book, n)
             ph == Phone(p, NewOid(book))
         IN  IF ph.exc # "None" THEN Raises(ph.exc, book)
             ELSE LET rm == Record_remove(book[i].record, ph.obj)
                  IN  IF rm.exc # "None" THEN Raises(rm.exc, book)
                      ELSE Returns("Nomer telefonu " \o Str(p)
                                   \o " vydaleno z kontaktu " \o n \o ".",
                                   [book EXCEPT ![i].record = rm.rec])

\* remove_record as it would be with del self.data[name]
remove_record_cmd_del(book, n) ==
    IF n \notin Keys(book) THEN Raises("KeyError", book)
    ELSE Returns("Kontakt " \o n \o " vydaleno.", remove_record(book, n))

\* Assistant.remove_record
remove_record_cmd(book, n) ==
    Returns("Kontakt " \o n \o " vydaleno.", remove_record(book, n))

\* ", ".join([phone.value for phone in record.phones])
PhonesText(rec) ==
    Join(", ", [j \in 1..Len(rec.phones) |-> Str(rec.phones[j].value)])

\* phone as it would be with self.address_book.pop(name)
phone_cmd_pops(book, n) ==
    IF n \notin Keys(book) THEN Raises("KeyError", book)
    ELSE Returns(PhonesText(Lookup(book, n)), remove_record(book, n))

\* Assistant.phone
phone_cmd(book, n) ==
    IF n \notin Keys(book) THEN Raises("KeyError", book)
    ELSE Returns(PhonesText(Lookup(book, n)), book)

\* the body of the loop of show_all for one record: [exc, info]
ShowInfo(rec, t) ==
    LET head == rec.name \o ": " \o PhonesText(rec)
        bv == Birthday_value(rec.birthday)
    IN  IF bv.exc # "None" THEN [exc |-> bv.exc]
        ELSE IF bv.val = NoDate THEN [exc |-> "None", info |-> head]
        ELSE LET days == days_to_birthday(rec, t)
             IN  IF days.exc # "None" THEN [exc |-> days.exc]
                 ELSE [exc |-> "None",
                       info |-> head \o " (Dni do dnya narodzhennya: "
                                \o ToString(days.val) \o ")"]

\* Assistant.show_all with date.today() = t
show_all(book, t) ==
    LET recs == get_all_records(book)
        infos == [i \in 1..Len(recs) |-> ShowInfo(recs[i], t)]
        bad == {i \in 1..Len(recs) : infos[i].exc # "None"}
    IN  IF bad # {}
        THEN Raises(infos[CHOOSE i \in bad : \A j \in bad : i <= j].exc, book)
        ELSE Returns(Join("\n", [i \in 1..Len(recs) |-> infos[i].info]), book)

\* exit as it would be if its text were not the one run compares with
exit_other_text(book) == Returns("Do pobachennya", book)

\* Assistant.exit
exit(book) == Returns(ExitMsg, book)

\* input_error with the texts of its two except clauses exchanged
input_error_swapped(o) ==
    IF o.exc = "None" THEN [exc |-> "None", ret |-> o.ret]
    ELSE IF o.exc \in {"IndexError", "ValueError"}
    THEN [exc |-> "None", ret |-> NotFoundMsg]
    ELSE IF o.exc = "KeyError" THEN [exc |-> "None", ret |-> InputErrorMsg]
    ELSE [exc |-> o.exc, ret |-> ""]

\* input_error without ValueError in its first except clause
input_error_no_ValueError(o) ==
    IF o.exc = "None" THEN [exc |-> "None", ret |-> o.ret]
    ELSE IF o.exc \in {"IndexError"}
    THEN [exc |-> "None", ret |-> InputErrorMsg]
    ELSE IF o.exc = "KeyError" THEN [exc |-> "None", ret |-> NotFoundMsg]
    ELSE [exc |-> o.exc, ret |-> ""]

\* input_error: what the wrapped handler returns, or the exception that
\* passes through the wrapper
input_error(o) ==
    IF o.exc = "None" THEN [exc |-> "None", ret |-> o.ret]
    ELSE IF o.exc \in {"IndexError", "ValueError"}
    THEN [exc |-> "None", ret |-> InputErrorMsg]
    ELSE IF o.exc = "KeyError" THEN [exc |-> "None", ret |-> NotFoundMsg]
    ELSE [exc |-> o.exc, ret |-> ""]

\* Assistant.COMMANDS: the command names
COMMANDS ==
    { "hello", "add", "change", "remove_phone", "remove_record", "phone",
      "show_all", "exit" }

\* get_command_handler without the strip() of line 183
get_command_handler_no_strip(c) ==
    LET key == Str(Lower(c))
    IN  IF key \in COMMANDS THEN key ELSE "None"

\* Assistant.get_command_handler: the name of the handler, or "None"
get_command_handler(c) ==
    LET key == Str(Strip(Lower(c)))
    IN  IF key \in COMMANDS THEN key ELSE "None"

----------------------------------------------------------------------------
(* Assistant.run: one action per branch of one iteration of the loop.      *)

Init ==
    /\ address_book = <<>>
    /\ prev_book = <<>>
    /\ pc = "prompt"
    /\ command = <<>>
    /\ handler = "None"
    /\ name = ""
    /\ phone = <<>>
    /\ birthday = <<>>
    /\ today = NoDate
    /\ raised = "None"
    /\ printed = ""

\* response = handler(self, ''); print(response); break on the exit text
Respond(o) ==
    LET r == input_error(o)
    IN  /\ prev_book' = address_book
        /\ address_book' = Renumber(o.book)
        /\ raised' = o.exc
        /\ IF r.exc # "None"
           THEN /\ pc' = "crashed"
                /\ UNCHANGED printed
           ELSE /\ printed' = r.ret
                /\ pc' = IF r.ret = ExitMsg THEN "stopped" ELSE "prompt"

\* the strings entered at the prompts of the handler ("" / <<>>: no prompt)
Entered(n, p, b) ==
    /\ name' = n
    /\ phone' = p
    /\ birthday' = b

\* get_command_handler on each token the user types
HandlerOf == [c \in Tokens |-> get_command_handler(c)]

\* command = input(...); handler = self.get_command_handler(command)
ReadCommand(h) ==
    /\ pc = "prompt"
    /\ \E c \in Tokens :
        /\ HandlerOf[c] = h
        /\ command' = c
    /\ handler' = h

InvalidCommand ==
    /\ ReadCommand("None")
    /\ printed' = InvalidCommandMsg
    /\ prev_book' = address_book
    /\ Entered("", <<>>, <<>>)
    /\ raised' = "None"
    /\ today' = NoDate
    /\ UNCHANGED <<address_book, pc>>

Hello ==
    /\ ReadCommand("hello")
    /\ Entered("", <<>>, <<>>)
    /\ today' = NoDate
    /\ Respond(hello(address_book))

Add ==
    /\ ReadCommand("add")
    /\ \E n \in Names, p \in Phones, b \in Birthdays :
        /\ Entered(n, p, b)
        /\ Respond(add(address_book, n, p, b))
    /\ today' = NoDate

Change ==
    /\ ReadCommand("change")
    /\ \E n \in Names, p \in Phones :
        /\ Entered(n, p, <<>>)
        /\ Respond(change(address_book, n, p))
    /\ today' = NoDate

RemovePhone ==
    /\ ReadCommand("remove_phone")
    /\ \E n \in Names, p \in Phones :
        /\ Entered(n, p, <<>>)
        /\ Respond(remove_phone(address_book, n, p))
    /\ today' = NoDate

RemoveRecord ==
    /\ ReadCommand("remove_record")
    /\ \E n \in Names :
        /\ Entered(n, <<>>, <<>>)
        /\ Respond(remove_record_cmd(address_book, n))
    /\ today' = NoDate

PhoneCmd ==
    /\ ReadCommand("phone")
    /\ \E n \in Names :
        /\ Entered(n, <<>>, <<>>)
        /\ Respond(phone_cmd(address_book, n))
    /\ today' = NoDate

\* date.today() is read once per record; the clock is taken not to pass
\* midnight within one command
ShowAll ==
    /\ ReadCommand("show_all")
    /\ Entered("", <<>>, <<>>)
    /\ \E t \in Todays :
        /\ today' = t
        /\ Respond(show_all(address_book, t))

Exit ==
    /\ ReadCommand("exit")
    /\ Entered("", <<>>, <<>>)
    /\ today' = NoDate
    /\ Respond(exit(address_book))

Next ==
    \/ InvalidCommand
    \/ Hello
    \/ Add
    \/ Change
    \/ RemovePhone
    \/ RemoveRecord
    \/ PhoneCmd
    \/ ShowAll
    \/ Exit

Spec == Init /\ [][Next]_vars

----------------------------------------------------------------------------
(* What the properties observe of a book.                                  *)

\* the values of the phones of a record, in order
PhoneValues(rec) == [j \in 1..Len(rec.phones) |-> rec.phones[j].value]

\* a record as seen through its fields' values
RecordView(rec) ==
    [name |-> rec.name, phones |-> PhoneValues(rec), birthday |-> rec.birthday]

\* a book as seen through its keys, in order, and its records' values
View(book) ==
    [i \in 1..Len(book) |->
        [key |-> book[i].key, record |-> RecordView(book[i].record)]]

\* seq without its first element equal to v
RemoveFirst(seq, v) ==
    LET hits == {i \in 1..Len(seq) : seq[i] = v}
    IN  IF hits = {} THEN seq
        ELSE LET i == CHOOSE k \in hits : \A j \in hits : k <= j
             IN  SubSeq(seq, 1, i - 1) \o SubSeq(seq, i + 1, Len(seq))

\* a command has been dispatched to the handler h and has come back
Handled(h) == handler = h /\ pc # "crashed" /\ command # <<>>

TypeOK ==
    /\ pc \in {"prompt", "stopped", "crashed"}
    /\ handler \in COMMANDS \cup {"None"}
    /\ raised \in {"None", "ValueError", "KeyError"}

----------------------------------------------------------------------------
\* C1: whenever add, change or remove_phone ends with the input-error text
\* because the entered phone or birthday has an invalid format, the book
\* after the command has the same keys and the same records (phones and
\* birthday) as before it.
C1_InvalidFormatLeavesBook ==
    ( /\ handler \in {"add", "change", "remove_phone"}
      /\ pc # "crashed"
      /\ printed = InputErrorMsg
      /\ \/ ~PHONE_REGEX(phone)
         \/ handler = "add" /\ ~DATE_REGEX(birthday) )
    => View(address_book) = View(prev_book)

\* C2: remove_phone with an existing name and a string equal to the value of
\* a phone the record holds returns the success text and removes the first
\* phone with that value, keeping the others in order.
C2_RemovePhoneByValue ==
    ( /\ Handled("remove_phone")
      /\ name \in Keys(prev_book)
      /\ \E j \in 1..Len(Lookup(prev_book, name).phones) :
             Lookup(prev_book, name).phones[j].value = phone )
    => /\ printed = "Nomer telefonu " \o Str(phone)
                    \o " vydaleno z kontaktu " \o name \o "."
       /\ name \in Keys(address_book)
       /\ PhoneValues(Lookup(address_book, name))
              = RemoveFirst(PhoneValues(Lookup(prev_book, name)), phone)

\* the case of C3: remove_phone, existing name, well-formed phone that is not
\* among the values of the record's phones
C3_Case ==
    /\ Handled("remove_phone")
    /\ name \in Keys(prev_book)
    /\ PHONE_REGEX(phone)
    /\ \A j \in 1..Len(Lookup(prev_book, name).phones) :
           Lookup(prev_book, name).phones[j].value # phone

C4_AddStoresOnePhone ==
    ( /\ Handled("add")
      /\ PHONE_REGEX(phone)
      /\ DATE_REGEX(birthday) )
    => /\ name \in Keys(address_book)
       /\ PhoneValues(Lookup(address_book, name)) = <<phone>>

C4_Witness ==
    /\ Handled("add")
    /\ PHONE_REGEX(phone)
    /\ DATE_REGEX(birthday)
    /\ name \in Keys(prev_book)
    /\ Len(Lookup(prev_book, name).phones) = 1
    /\ PhoneValues(Lookup(prev_book, name)) # <<phone>>
    /\ PhoneValues(Lookup(address_book, name)) = <<phone>>

\* C5: keys are unique, so the number of records is the number of names added
\* and not removed: a successful add leaves the keys of before plus the
\* entered name, remove_record leaves them minus the entered name, every
\* other command leaves them alone.  After a successful add the record under
\* the entered name carries the entered phone and birthday, and every record
\* under another name is as before.
C5_AddOverwrites ==
    /\ Len(address_book) = Cardinality(Keys(address_book))
    /\ pc # "crashed" =>
        Keys(address_book) =
            IF handler = "add" /\ raised = "None"
            THEN Keys(prev_book) \cup {name}
            ELSE IF handler = "remove_record" THEN Keys(prev_book) \ {name}
            ELSE Keys(prev_book)
    /\ (Handled("add") /\ raised = "None") =>
        /\ RecordView(Lookup(address_book, name))
               = [name |-> name, phones |-> <<phone>>, birthday |-> birthday]
        /\ \A k \in Keys(prev_book) \ {name} :
               RecordView(Lookup(address_book, k))
                   = RecordView(Lookup(prev_book, k))

C5_Witness ==
    /\ Handled("add")
    /\ raised = "None"
    /\ Len(prev_book) = 2
    /\ Len(address_book) = 2
    /\ RecordView(Lookup(prev_book, name)).phones # <<phone>>
    /\ RecordView(Lookup(prev_book, name)).birthday # birthday

\* C6: add with a phone that does not match the phone rule, or a birthday
\* that does not match YYYY-MM-DD, prints the input-error text and leaves
\* the keys and every record of the book as they were.
C6_AddRejectsInvalid ==
    ( /\ Handled("add")
      /\ ~PHONE_REGEX(phone) \/ ~DATE_REGEX(birthday) )
    => /\ printed = InputErrorMsg
       /\ View(address_book) = View(prev_book)

C6_Witness ==
    /\ Handled("add")
    /\ ~PHONE_REGEX(phone)
    /\ DATE_REGEX(birthday)
    /\ name \in Keys(prev_book)
    /\ Lookup(prev_book, name).birthday # birthday
    /\ printed = InputErrorMsg

\* C7: change, remove_phone and phone with a name that is not a key of the
\* book print the not-found text and leave the book unchanged, whether or
\* not the phone entered is well-formed.
C7_UnknownName ==
    ( /\ handler \in {"change", "remove_phone", "phone"}
      /\ pc # "crashed"
      /\ name \notin Keys(prev_book) )
    => /\ raised = "KeyError"
       /\ printed = NotFoundMsg
       /\ View(address_book) = View(prev_book)

\* the name entered differs from a key of the book in case only, and the
\* phone entered is malformed
C7_Witness ==
    /\ Handled("change")
    /\ name = "do pobachennya!"
    /\ Keys(prev_book) = {"Do pobachennya!"}
    /\ ~PHONE_REGEX(phone)
    /\ printed = NotFoundMsg

\* C8: remove_record never fails; with a name absent from the book it leaves
\* the book unchanged, with a name present it removes that key only and
\* leaves every other record, and their order, unchanged.
C8_RemoveRecord ==
    Handled("remove_record")
    => /\ raised = "None"
       /\ printed = "Kontakt " \o name \o " vydaleno."
       /\ View(address_book)
              = SelectSeq(View(prev_book), LAMBDA e : e.key # name)

C8_Witness ==
    /\ Handled("remove_record")
    /\ Len(prev_book) = 2
    /\ name \in Keys(prev_book)
    /\ Len(address_book) = 1

\* C9: no exception leaves a handler: run never stops on one, every handler
\* either returns or raises ValueError or KeyError, which input_error turns
\* into its two texts, and the loop is back at its prompt unless the command
\* was exit.
C9_NoFatalError ==
    /\ pc # "crashed"
    /\ raised \in {"None", "ValueError", "KeyError"}
    /\ raised = "ValueError" => printed = InputErrorMsg
    /\ raised = "KeyError" => printed = NotFoundMsg
    /\ pc = "prompt" \/ handler = "exit"

\* show_all with a stored 29 February when this year has none
C9_Witness ==
    /\ Handled("show_all")
    /\ \E i \in 1..Len(address_book) :
           /\ DATE_REGEX(address_book[i].record.birthday)
           /\ strptime(address_book[i].record.birthday).exc = "None"
           /\ strptime(address_book[i].record.birthday).val.month = 2
           /\ strptime(address_book[i].record.birthday).val.day = 29
    /\ ~IsLeap(today.year)
    /\ raised = "ValueError"
    /\ printed = InputErrorMsg
    /\ pc = "prompt"

\* C10: run has stopped exactly when the last command dispatched was exit,
\* no other command prints the exit text, and once stopped run reads no
\* further command.
C10_StopsExactlyOnExit ==
    /\ [](/\ pc = "stopped" <=> handler = "exit"
          /\ handler # "exit" => printed # ExitMsg)
    /\ [][pc # "stopped"]_vars

\* show_all was answered for a book with a record named like the exit text
C10_Witness ==
    /\ Handled("show_all")
    /\ raised = "None"
    /\ "Do pobachennya!" \in Keys(address_book)
    /\ pc = "prompt"


\* C11: a command token that, lower-cased and stripped, is none of the eight
\* command names gets the invalid-command text: no handler runs, nothing is
\* prompted for and the book is unchanged.  A token that is one of the names
\* after lower-casing and stripping is dispatched to that handler.
C11_Dispatch ==
    (command # <<>> /\ pc # "crashed") =>
        IF Str(Strip(Lower(command))) \in COMMANDS
        THEN /\ handler = Str(Strip(Lower(command)))
             /\ printed # InvalidCommandMsg
        ELSE /\ handler = "None"
             /\ printed = InvalidCommandMsg
             /\ raised = "None"
             /\ name = "" /\ phone = <<>> /\ birthday = <<>>
             /\ today = NoDate
             /\ pc = "prompt"
             /\ address_book = prev_book

\* "add x" was read with a contact in the book
C11_Witness ==
    /\ command = <<"a", "d", "d", " ", "x">>
    /\ handler = "None"
    /\ printed = InvalidCommandMsg
    /\ Len(address_book) = 1

\* C12: every record in the book has the name it is stored under, and no two
\* items of the book have the same key.
C12_NameIsKey ==
    /\ \A i \in 1..Len(address_book) :
           address_book[i].record.name = address_book[i].key
    /\ \A i, j \in 1..Len(address_book) :
           address_book[i].key = address_book[j].key => i = j

\* an add has overwritten one of two records
C12_Witness ==
    /\ Handled("add")
    /\ raised = "None"
    /\ Len(prev_book) = 2
    /\ Len(address_book) = 2
    /\ View(address_book) # View(prev_book)


\* the number of days from dt to the first day on or after it that is the
\* d-th of month m (a 29 February is at most eight years away)
DaysUntil(dt, m, d) ==
    LET years == {y \in dt.year..(dt.year + 8) : d <= DaysInMonth(y, m)}
        ahead == {toordinal([year |-> y, month |-> m, day |-> d])
                      - toordinal(dt) : y \in years}
        coming == {n \in ahead : n >= 0}
    IN  CHOOSE n \in coming : \A k \in coming : n <= k

\* C13: for every stored birthday that is a calendar date and every today,
\* days_to_birthday returns (does not raise) a number in 0..365, which is the
\* number of days from today to the next day with the birthday's month and
\* day, 29 February included.
C13_DaysToBirthday ==
    \A i \in 1..Len(address_book), t \in Todays :
        LET rec == address_book[i].record
            bv == strptime(rec.birthday)
            r == days_to_birthday(rec, t)
        IN  bv.exc = "None" =>
                /\ r.exc = "None"
                /\ r.val \in 0..365
                /\ r.val = DaysUntil(t, bv.val.month, bv.val.day)


\* the keys of a book in the order of enumeration
KeyOrder(book) == [i \in 1..Len(book) |-> book[i].key]

\* C14: get_all_records yields the record of every key once, in the order of
\* the keys, which is insertion order: a successful add of a name already
\* present leaves the order as it was, of a name absent (never added, or
\* removed since) puts it last, remove_record takes the name out, and no
\* other command changes the order.
C14_InsertionOrder ==
    /\ get_all_records(address_book)
           = [i \in 1..Len(address_book) |->
                 Lookup(address_book, KeyOrder(address_book)[i])]
    /\ Len(address_book) = Cardinality(Keys(address_book))
    /\ pc # "crashed" =>
        KeyOrder(address_book) =
            IF handler = "add" /\ raised = "None"
            THEN IF name \in Keys(prev_book)
                 THEN KeyOrder(prev_book)
                 ELSE Append(KeyOrder(prev_book), name)
            ELSE IF handler = "remove_record"
            THEN SelectSeq(KeyOrder(prev_book), LAMBDA k : k # name)
            ELSE KeyOrder(prev_book)

\* an add has overwritten the first of two records
C14_Witness ==
    /\ Handled("add")
    /\ raised = "None"
    /\ Len(prev_book) = 2
    /\ prev_book[1].key = name
    /\ address_book[1].key = name
    /\ RecordView(address_book[1].record) # RecordView(prev_book[1].record)

\* C15: a successful change leaves the book as it was except that the phones
\* of the record under the entered name are exactly the entered phone: name,
\* birthday and position of that record and every other record are unchanged.
C15_ChangeReplacesPhones ==
    (Handled("change") /\ raised = "None") =>
        /\ name \in Keys(prev_book)
        /\ PHONE_REGEX(phone)
        /\ View(address_book)
               = [View(prev_book) EXCEPT
                     ![IndexOf(prev_book, name)].record.phones = <<phone>>]

\* the second of two records had another phone
C15_Witness ==
    /\ Handled("change")
    /\ raised = "None"
    /\ Len(prev_book) = 2
    /\ prev_book[2].key = name
    /\ Len(prev_book[2].record.phones) = 1
    /\ prev_book[2].record.phones[1].value # phone
    /\ PhoneValues(address_book[2].record) = <<phone>>


\* the birthday stored in rec matches YYYY-MM-DD but is no calendar date
CalendarInvalid(rec) == strptime(rec.birthday).exc # "None"

\* C16: add with a well-formed phone stores a record for every birthday that
\* matches YYYY-MM-DD, calendar date or not; show_all prints the input-error
\* text as long as the book holds a record whose birthday is no calendar
\* date, and prints the listing when it holds none (the record was removed
\* or overwritten with a calendar date).
C16_InvalidDateBlocksShowAll ==
    /\ (Handled("add") /\ PHONE_REGEX(phone) /\ DATE_REGEX(birthday)) =>
        /\ raised = "None"
        /\ name \in Keys(address_book)
        /\ Lookup(address_book, name).birthday = birthday
    /\ Handled("show_all") =>
        (printed = InputErrorMsg
            <=> \E i \in 1..Len(address_book) :
                    CalendarInvalid(address_book[i].record))


\* C17: every record in the book holds at most one phone.
C17_AtMostOnePhone ==
    \A i \in 1..Len(address_book) : Len(address_book[i].record.phones) <= 1

\* a change has succeeded on a record that held a phone
C17_Witness ==
    /\ Handled("change")
    /\ raised = "None"
    /\ Len(Lookup(prev_book, name).phones) = 1
    /\ Len(Lookup(address_book, name).phones) = 1

\* C18: every record in the book has a birthday, whose stored string matches
\* YYYY-MM-DD; add with a birthday that does not match raises and leaves the
\* keys of the book as they were.
C18_BirthdayAlwaysSet ==
    /\ \A i \in 1..Len(address_book) :
           /\ address_book[i].record.birthday # <<>>
           /\ DATE_REGEX(address_book[i].record.birthday)
    /\ (Handled("add") /\ ~DATE_REGEX(birthday)) =>
           /\ raised = "ValueError"
           /\ Keys(address_book) = Keys(prev_book)

\* add of a new name with a well-formed phone and a malformed birthday
C18_Witness ==
    /\ Handled("add")
    /\ ~DATE_REGEX(birthday)
    /\ PHONE_REGEX(phone)
    /\ name \notin Keys(prev_book)
    /\ name \notin Keys(address_book)
    /\ Len(address_book) = 1

\* C19: hello, phone, show_all and exit leave the book as it was, whether
\* they return their text or one of the error texts.
C19_QueriesLeaveBook ==
    ( /\ handler \in {"hello", "phone", "show_all", "exit"}
      /\ pc # "crashed" )
    => /\ address_book = prev_book
       /\ View(address_book) = View(prev_book)

\* phone has listed the phone of one of two records
C19_Witness ==
    /\ Handled("phone")
    /\ raised = "None"
    /\ Len(prev_book) = 2
    /\ printed = "+380501234567"

====
